---- MODULE Spec2Model ----
(***************************************************************************)
(* Model of src/main.py: the "AI Power - Hyper Generate API".              *)
(*                                                                         *)
(* Text is modelled as a sequence of one-character strings, so that        *)
(* trimming, truncation, slicing and decimal formatting are computed the   *)
(* way the Python code computes them.  The scene document is the sequence  *)
(* of markup tokens the f-string of build_image_svg emits, in order; the   *)
(* interpolated prompt appears in it as raw character tokens.  The         *)
(* indentation whitespace between the elements of the template is a fixed  *)
(* literal and is left out of the token sequence.  TLA+ strings are ASCII: *)
(* the pictographs that start the status texts of /test are written as a   *)
(* bracketed word ("[ok] ", "[no] ", "[warn] ") and the dashes of the      *)
(* narration as "--".  Fractional numbers of the audio layers are written  *)
(* in hundredths.  Hyphenated attribute names are written in camel case    *)
(* (stop-color as stopColor, text-anchor as textAnchor).                   *)
(***************************************************************************)
EXTENDS Integers, Sequences, FiniteSets, TLC

VARIABLES environ, endpoint, request, response

vars == <<environ, endpoint, request, response>>

(***************************************************************************)
(* Bounds of the model.                                                    *)
(***************************************************************************)
MaxLen == 3

MaxColls == 11

MaxMsg == 51

(***************************************************************************)
(* Characters and strings.                                                 *)
(***************************************************************************)
Whitespace == {" ", "\t", "\n", "\r", "\f"}

Alphabet == {"a", " ", "\t", "<", ">", "&"}

RECURSIVE SeqsUpTo(_, _)
SeqsUpTo(S, n) ==
    IF n = 0 THEN {<<>>}
    ELSE LET shorter == SeqsUpTo(S, n - 1)
         IN  shorter \cup {Append(s, c) : s \in shorter, c \in S}

Prompts == SeqsUpTo(Alphabet, MaxLen)

Digit(d) ==
    CASE d = 0 -> "0" [] d = 1 -> "1" [] d = 2 -> "2" [] d = 3 -> "3"
      [] d = 4 -> "4" [] d = 5 -> "5" [] d = 6 -> "6" [] d = 7 -> "7"
      [] d = 8 -> "8" [] d = 9 -> "9"

\* str(n) of a non-negative int, as the f-string formats {i*220} and the like.
RECURSIVE Str(_)
Str(n) == IF n < 10 THEN <<Digit(n)>> ELSE Append(Str(n \div 10), Digit(n % 10))

Pct(n) == Append(Str(n), "%")

\* s[:n]
Take(s, n) == SubSeq(s, 1, IF Len(s) < n THEN Len(s) ELSE n)

RECURSIVE lstrip(_)
lstrip(s) ==
    IF s # <<>> /\ Head(s) \in Whitespace THEN lstrip(Tail(s)) ELSE s

RECURSIVE rstrip(_)
rstrip(s) ==
    IF s # <<>> /\ s[Len(s)] \in Whitespace
    THEN rstrip(SubSeq(s, 1, Len(s) - 1))
    ELSE s

stripLeftOnly(s) == lstrip(s)

\* str.strip()
strip(s) == rstrip(lstrip(s))

DefaultPrompt ==
    << "A", " ", "m", "y", "s", "t", "e", "r", "i", "o", "u", "s", " ", "o",
       "b", "j", "e", "c", "t", " ", "r", "a", "d", "i", "a", "t", "i", "n",
       "g", " ", "f", "a", "i", "n", "t", " ", "e", "l", "e", "c", "t", "r",
       "i", "c", "-", "b", "l", "u", "e", " ", "l", "i", "g", "h", "t", " ",
       "o", "n", " ", "t", "h", "e", " ", "f", "a", "r", " ", "s", "i", "d",
       "e", " ", "o", "f", " ", "t", "h", "e", " ", "M", "o", "o", "n", "." >>

(***************************************************************************)
(* The scene document: build_image_svg.                                    *)
(***************************************************************************)
Open(name, attrs) == [kind |-> "open", name |-> name, attrs |-> attrs]

Empty(name, attrs) == [kind |-> "empty", name |-> name, attrs |-> attrs]

Close(name) == [kind |-> "close", name |-> name, attrs |-> <<>>]

Char(c) == [kind |-> "char", name |-> c, attrs |-> <<>>]

\* A string interpolated into the markup as it is: one character token per
\* character, nothing escaped.
Interpolate(s) == [i \in 1..Len(s) |-> Char(s[i])]

CanvasWidth == 2400

CanvasHeight == 1350

FirstIndex == 1

StopIndex == 20

XStep == 220

YStep == 97

YModulus == 1350

BaseRadius == 80

RadiusCycle == 5

RadiusStep == 18

starCircleShifted(i) ==
    Empty("circle", [cx |-> Str(i * XStep), cy |-> Str(i * YStep),
                     r |-> Str(BaseRadius + (i % RadiusCycle) * RadiusStep),
                     fill |-> "#6B21A8", opacity |-> "0.25"])

starCircle(i) ==
    Empty("circle", [cx |-> Str(i * XStep), cy |-> Str((i * YStep) % YModulus),
                     r |-> Str(BaseRadius + (i % RadiusCycle) * RadiusStep),
                     fill |-> "#6B21A8", opacity |-> "0.25"])

\* ''.join([... for i in range(1,20)])
starfieldShort == [k \in 1..(StopIndex - FirstIndex - 1) |-> starCircle(FirstIndex + k - 1)]

starfield == [k \in 1..(StopIndex - FirstIndex) |-> starCircle(FirstIndex + k - 1)]

sceneDefs ==
    << Open("defs", <<>>),
       Open("radialGradient", [id |-> "glow", cx |-> Pct(50), cy |-> Pct(60), r |-> Pct(60)]),
       Empty("stop", [offset |-> Pct(0), stopColor |-> "#6EE7F9", stopOpacity |-> "0.9"]),
       Empty("stop", [offset |-> Pct(40), stopColor |-> "#2563EB", stopOpacity |-> "0.35"]),
       Empty("stop", [offset |-> Pct(100), stopColor |-> "#0B1020", stopOpacity |-> "0"]),
       Close("radialGradient"),
       Open("linearGradient", [id |-> "sky", x1 |-> Str(0), x2 |-> Str(0), y1 |-> Str(0), y2 |-> Str(1)]),
       Empty("stop", [offset |-> Pct(0), stopColor |-> "#070914"]),
       Empty("stop", [offset |-> Pct(100), stopColor |-> "#0B1020"]),
       Close("linearGradient"),
       Open("filter", [id |-> "blur"]),
       Empty("feGaussianBlur", [in |-> "SourceGraphic", stdDeviation |-> Str(40)]),
       Close("filter"),
       Close("defs") >>

sceneHead ==
    << Open("svg", [xmlns |-> "http://www.w3.org/2000/svg",
                    width |-> Str(CanvasWidth), height |-> Str(CanvasHeight),
                    viewBox |-> "0 0 2400 1350"]) >>
    \o sceneDefs
    \o << Empty("rect", [width |-> Pct(100), height |-> Pct(100), fill |-> "url(#sky)"]),
          Open("g", [opacity |-> "0.25"]) >>

sceneBody ==
    << Close("g"),
       Empty("ellipse", [cx |-> Str(1200), cy |-> Str(980), rx |-> Str(800), ry |-> Str(220),
                         fill |-> "#0B1020", opacity |-> "0.9"]),
       Empty("ellipse", [cx |-> Str(1200), cy |-> Str(980), rx |-> Str(820), ry |-> Str(240),
                         fill |-> "#1E293B", opacity |-> "0.35", filter |-> "url(#blur)"]),
       Empty("rect", [x |-> Str(1100), y |-> Str(300), width |-> Str(200), height |-> Str(700),
                      rx |-> Str(8), fill |-> "#0F172A", stroke |-> "#1E293B", strokeWidth |-> Str(3)]),
       Empty("rect", [x |-> Str(1110), y |-> Str(310), width |-> Str(180), height |-> Str(680),
                      rx |-> Str(6), fill |-> "#111827"]),
       Empty("rect", [x |-> Str(1120), y |-> Str(320), width |-> Str(160), height |-> Str(660),
                      rx |-> Str(4), fill |-> "#0B1325"]),
       Empty("rect", [x |-> Str(1128), y |-> Str(330), width |-> Str(144), height |-> Str(640),
                      rx |-> Str(3), fill |-> "#0A0F1D"]),
       Empty("ellipse", [cx |-> Str(1200), cy |-> Str(980), rx |-> Str(520), ry |-> Str(140),
                         fill |-> "url(#glow)"]),
       Empty("circle", [cx |-> Str(1200), cy |-> Str(620), r |-> Str(420), fill |-> "url(#glow)"]),
       Open("text", [x |-> Str(1200), y |-> Str(1240), textAnchor |-> "middle",
                     fontFamily |-> "Inter, system-ui", fontSize |-> Str(28),
                     fill |-> "#94A3B8", opacity |-> "0.9"]) >>

sceneTail == << Close("text"), Close("svg") >>

build_image_svg_sized(prompt) ==
    sceneHead \o SubSeq(starfield, 1, Len(starfield) - (Len(prompt) % 2))
              \o sceneBody \o Interpolate(prompt) \o sceneTail

build_image_svg(prompt) ==
    sceneHead \o starfield \o sceneBody \o Interpolate(prompt) \o sceneTail

(***************************************************************************)
(* The static content providers.                                           *)
(***************************************************************************)
python_fn ==
    "import math\n"
    \o "def estimate_monolith_gravity(mass_kg: float, distance_m: float) -> float:\n"
    \o "    \"\"\"Return gravitational acceleration (m/s^2) at a distance from the monolith using Newton's law.\n"
    \o "    G = 6.67430e-11\n"
    \o "    return G * mass_kg / (distance_m ** 2)\n\n"
    \o "def estimate_energy_emission(area_m2: float, emissive_w_per_m2: float) -> float:\n"
    \o "    \"\"\"Estimate radiant power output (Watts) from a glowing surface.\n"
    \o "    return area_m2 * emissive_w_per_m2\n"

kotlin_fn ==
    "import kotlin.math.pow\n\n"
    \o "object MonolithPhysics {\n"
    \o "  private const val G: Double = 6.67430e-11\n\n"
    \o "  fun gravity(massKg: Double, distanceM: Double): Double {\n"
    \o "    return G * massKg / distanceM.pow(2.0)\n"
    \o "  }\n\n"
    \o "  fun energy(areaM2: Double, emissiveWPerM2: Double): Double {\n"
    \o "    return areaM2 * emissiveWPerM2\n"
    \o "  }\n"
    \o "}\n"

build_code_snippets == [python |-> python_fn, kotlin |-> kotlin_fn]

StoryboardFrame(t, title, description, camera, elements) ==
    [t |-> t, title |-> title, description |-> description, camera |-> camera,
     elements |-> elements]

build_storyboard_timed(prompt) ==
    << StoryboardFrame(0, "Approach", "Camera glides over the lunar terminator into darkness.",
                       "slow-dolly-in", <<"stars", "wireframe spheres", "moon horizon">>),
       StoryboardFrame(10 + Len(prompt), "Reveal", "Electric-blue glow blooms, outlining the monolith.",
                       "tilt-up", <<"monolith", "glow", "regolith dust">>),
       StoryboardFrame(25, "Inscription", "Ancient symbols flicker across the obsidian face.",
                       "macro-pan", <<"symbols", "blue runes">>),
       StoryboardFrame(40, "Distortion", "Subtle lens warps hint at gravitational shear.",
                       "orbit", <<"gravitational ripple", "ionized haze">>),
       StoryboardFrame(55, "Contact", "Astronaut silhouette reaches out as hum crescendos.",
                       "push-in", <<"astronaut", "ribbon light">>) >>

build_storyboard(prompt) ==
    << StoryboardFrame(0, "Approach", "Camera glides over the lunar terminator into darkness.",
                       "slow-dolly-in", <<"stars", "wireframe spheres", "moon horizon">>),
       StoryboardFrame(10, "Reveal", "Electric-blue glow blooms, outlining the monolith.",
                       "tilt-up", <<"monolith", "glow", "regolith dust">>),
       StoryboardFrame(25, "Inscription", "Ancient symbols flicker across the obsidian face.",
                       "macro-pan", <<"symbols", "blue runes">>),
       StoryboardFrame(40, "Distortion", "Subtle lens warps hint at gravitational shear.",
                       "orbit", <<"gravitational ripple", "ionized haze">>),
       StoryboardFrame(55, "Contact", "Astronaut silhouette reaches out as hum crescendos.",
                       "push-in", <<"astronaut", "ribbon light">>) >>

\* An Optional field is the empty sequence for None and a one-element
\* sequence for a value; numbers are in hundredths.
AudioLayer(name, type, waveform, notes, base_freq, lfo_freq, reverb, volume) ==
    [name |-> name, type |-> type, waveform |-> waveform, notes |-> notes,
     base_freq |-> base_freq, lfo_freq |-> lfo_freq, reverb |-> reverb,
     volume |-> volume]

build_audio_layers ==
    << AudioLayer("Sub Bass Drone", "drone", "sine", <<>>, <<4120>>, <<6>>, <<60>>, 35),
       AudioLayer("Iridescent Ribbon", "pad", "triangle", <<>>, <<22000>>, <<12>>, <<50>>, 25),
       AudioLayer("Grain Hiss", "noisepad", "noise", <<>>, <<0>>, <<20>>, <<70>>, 15),
       AudioLayer("Beacon Pulses", "pulse", "sine", << <<44000, 55437, 65925, 88000>> >>,
                  <<>>, <<50>>, <<30>>, 20) >>

narration ==
    "On the dark side of the Moon, beyond the reach of Earth's gaze, a monolith rises from the regolith--"
    \o "its surface black as void, its edges trembling with a faint electric-blue aura. Symbols, older than language,"
    \o " coil and awaken across its face. Instruments whisper anomalies: gravity bends by imperceptible degrees,"
    \o " and the static hum resolves into a pattern. This is not a beacon. It is a key--waiting for the question we have yet to ask."

text_response ==
    "The monolith appears to operate as a multi-modal artifact: part gravitational lens, part information lattice. "
    \o "The faint electric-blue emission suggests controlled energy leakage--possibly a byproduct of field stabilization. "
    \o "The symbols may not be writing in a human sense but a spatial-temporal indexing scheme; think addresses for aligning matter and memory. "
    \o "Local perturbations in spacetime hint at a tuned mass effect, allowing the structure to modulate gravity as a carrier wave. "
    \o "A plausible function is archival: a vault that stores states--maps, genomes, histories--encoded as resonant patterns in vacuum fluctuations. "
    \o "Contact protocols should avoid RF injection and instead vary inertial frames: micro-thrust oscillations or lattice vibrations on contact surfaces. "
    \o "If the device is a key, the lock may be planetary: a network expecting the Moon, Earth, and Sun to form precise phase relationships. "
    \o "In that alignment, the monolith would not open in place; it would redirect--turning the local curvature into a pointer, and us into the message."

(***************************************************************************)
(* POST /api/hyper-generate.                                               *)
(***************************************************************************)
VideoDuration == 60

AudioDuration == 300

normalizeKeepEmpty(raw) == strip(raw)

\* prompt = req.prompt.strip(); if not prompt: prompt = <default>
normalize(raw) == IF strip(raw) = <<>> THEN DefaultPrompt ELSE strip(raw)

hyper_generate(req) ==
    LET prompt == normalize(req.prompt)
    IN  [prompt        |-> prompt,
         code_snippets |-> build_code_snippets,
         video         |-> [duration_sec   |-> VideoDuration,
                            narration_text |-> narration,
                            storyboard     |-> build_storyboard(prompt)],
         audio         |-> [duration_sec |-> AudioDuration,
                            layers       |-> build_audio_layers],
         image_svg     |-> build_image_svg(prompt),
         text_response |-> text_response]

(***************************************************************************)
(* GET / and GET /api/hello.                                               *)
(***************************************************************************)
read_root == [message |-> "Hello from FastAPI Backend!"]

hello == [message |-> "Hello from the backend API!"]

(***************************************************************************)
(* GET /test.                                                              *)
(*                                                                         *)
(* The environment is a record of the two variables the handler reads;     *)
(* each is <<>> when absent and <<value>> when present, the value being a  *)
(* (possibly empty) string.  A probe is one outcome of the database        *)
(* module during the request: what `from database import db` does, what    *)
(* reading db.name does and what db.list_collection_names() does.          *)
(***************************************************************************)
MsgLimit == 50

CollLimit == 10

EnvValues == {<<>>, << <<>> >>, << <<"x">> >>}

Environs == [DATABASE_URL : EnvValues, DATABASE_NAME : EnvValues]

\* os.getenv(name): None (here <<>>) when absent, else the value.
getenv(env, name) == IF env[name] = <<>> THEN <<>> ELSE env[name][1]

\* Truth value of os.getenv(name): None and "" are false.
isSet(env, name) == getenv(env, name) # <<>>

isPresent(env, name) == env[name] # <<>>

Message(n) == [i \in 1..n |-> "e"]

Messages == {Message(n) : n \in {0, 1} \cup ((MsgLimit - 1)..MaxMsg)}

CollNames(n) == [i \in 1..n |-> Str(i)]

CollLists == {CollNames(n) : n \in 0..MaxColls}

NameOutcomes ==
    {[kind |-> "absent", value |-> "", msg |-> <<>>],
     [kind |-> "value", value |-> "appdb", msg |-> <<>>]}
    \cup {[kind |-> "raises", value |-> "", msg |-> m] : m \in Messages}

ListOutcomes ==
    {[kind |-> "ok", names |-> c, msg |-> <<>>] : c \in CollLists}
    \cup {[kind |-> "raises", names |-> <<>>, msg |-> m] : m \in Messages}

NoName == [kind |-> "absent", value |-> "", msg |-> <<>>]

NoList == [kind |-> "ok", names |-> <<>>, msg |-> <<>>]

Probes ==
    {[import |-> "ImportError", msg |-> <<>>, name |-> NoName, list |-> NoList]}
    \cup {[import |-> "Exception", msg |-> m, name |-> NoName, list |-> NoList] : m \in Messages}
    \cup {[import |-> "None", msg |-> <<>>, name |-> NoName, list |-> NoList]}
    \cup {[import |-> "db", msg |-> <<>>, name |-> n, list |-> l] :
              n \in NameOutcomes, l \in ListOutcomes}

Status(text, detail) == [text |-> text, detail |-> detail]

initialResponse ==
    [backend           |-> "[ok] Running",
     database          |-> Status("[no] Not Available", <<>>),
     database_url      |-> "None",
     database_name     |-> "None",
     connection_status |-> "Not Connected",
     collections       |-> <<>>]

NoException == [exc |-> "none", msg |-> <<>>]

listCollectionsUncut(probe, r) ==
    IF probe.list.kind = "ok"
    THEN [r EXCEPT !.collections = probe.list.names,
                   !.database = Status("[ok] Connected & Working", <<>>)]
    ELSE [r EXCEPT !.database =
              Status("[warn]  Connected but Error: ", Take(probe.list.msg, MsgLimit))]

\* The inner try of the handler: list the collections, keep the first ten.
listCollections(probe, r) ==
    IF probe.list.kind = "ok"
    THEN [r EXCEPT !.collections = Take(probe.list.names, CollLimit),
                   !.database = Status("[ok] Connected & Working", <<>>)]
    ELSE [r EXCEPT !.database =
              Status("[warn]  Connected but Error: ", Take(probe.list.msg, MsgLimit))]

\* The body of the outer try: the exception that leaves it, if any, and the
\* response as it stands at that point.
probeDatabase(probe, r) ==
    CASE probe.import = "ImportError" ->
            [raised |-> [exc |-> "ImportError", msg |-> probe.msg], r |-> r]
      [] probe.import = "Exception" ->
            [raised |-> [exc |-> "Exception", msg |-> probe.msg], r |-> r]
      [] probe.import = "None" ->
            [raised |-> NoException,
             r |-> [r EXCEPT !.database = Status("[warn]  Available but not initialized", <<>>)]]
      [] probe.import = "db" ->
            LET r1 == [r EXCEPT !.database = Status("[ok] Available", <<>>),
                                !.database_url = "[ok] Configured"]
            IN  IF probe.name.kind = "raises"
                THEN [raised |-> [exc |-> "Exception", msg |-> probe.name.msg], r |-> r1]
                ELSE LET r2 == [r1 EXCEPT
                                  !.database_name = IF probe.name.kind = "value"
                                                    THEN probe.name.value
                                                    ELSE "[ok] Connected",
                                  !.connection_status = "Connected"]
                     IN  [raised |-> NoException, r |-> listCollections(probe, r2)]

handleOnlyImportError(t) ==
    CASE t.raised.exc = "none" -> [status |-> "returned", body |-> t.r]
      [] t.raised.exc = "ImportError" ->
            [status |-> "returned",
             body |-> [t.r EXCEPT !.database =
                 Status("[no] Database module not found (run enable-database first)", <<>>)]]
      [] t.raised.exc = "Exception" -> [status |-> "raised", body |-> t.r]

\* The except clauses of the outer try.
handleProbeErrors(t) ==
    CASE t.raised.exc = "none" -> [status |-> "returned", body |-> t.r]
      [] t.raised.exc = "ImportError" ->
            [status |-> "returned",
             body |-> [t.r EXCEPT !.database =
                 Status("[no] Database module not found (run enable-database first)", <<>>)]]
      [] t.raised.exc = "Exception" ->
            [status |-> "returned",
             body |-> [t.r EXCEPT !.database =
                 Status("[no] Error: ", Take(t.raised.msg, MsgLimit))]]

reportEnvironmentUrlOnly(env, r) ==
    [r EXCEPT !.database_url = IF isSet(env, "DATABASE_URL") THEN "[ok] Set" ELSE "[no] Not Set"]

\* The two assignments after the try.
reportEnvironment(env, r) ==
    [r EXCEPT !.database_url = IF isSet(env, "DATABASE_URL") THEN "[ok] Set" ELSE "[no] Not Set",
              !.database_name = IF isSet(env, "DATABASE_NAME") THEN "[ok] Set" ELSE "[no] Not Set"]

test_database(probe, env) ==
    LET handled == handleProbeErrors(probeDatabase(probe, initialResponse))
    IN  IF handled.status = "raised"
        THEN handled
        ELSE [status |-> "returned", body |-> reportEnvironment(env, handled.body)]

(***************************************************************************)
(* The service: one action per endpoint.                                   *)
(*                                                                         *)
(* Requests are served one at a time and the handlers keep nothing between *)
(* requests: a handler runs when no response is pending, and Deliver sends *)
(* the pending response and drops the request's data.                      *)
(***************************************************************************)
NoRequest == [prompt |-> <<>>, probe |-> CHOOSE p \in Probes : p.import = "None"]

NoResponse == [status |-> "none", body |-> <<>>]

Init ==
    /\ environ \in Environs
    /\ endpoint = "none"
    /\ request = NoRequest
    /\ response = NoResponse

ReadRoot ==
    /\ endpoint = "none"
    /\ endpoint' = "/"
    /\ request' = NoRequest
    /\ response' = [status |-> "returned", body |-> read_root]
    /\ UNCHANGED environ

Hello ==
    /\ endpoint = "none"
    /\ endpoint' = "/api/hello"
    /\ request' = NoRequest
    /\ response' = [status |-> "returned", body |-> hello]
    /\ UNCHANGED environ

TestDatabase ==
    /\ endpoint = "none"
    /\ \E probe \in Probes :
        /\ endpoint' = "/test"
        /\ request' = [NoRequest EXCEPT !.probe = probe]
        /\ response' = test_database(probe, environ)
    /\ UNCHANGED environ

HyperGenerate ==
    /\ endpoint = "none"
    /\ \E raw \in Prompts :
        /\ endpoint' = "/api/hyper-generate"
        /\ request' = [NoRequest EXCEPT !.prompt = raw]
        /\ response' = [status |-> "returned", body |-> hyper_generate(request')]
    /\ UNCHANGED environ

Deliver ==
    /\ endpoint # "none"
    /\ endpoint' = "none"
    /\ request' = NoRequest
    /\ response' = NoResponse
    /\ UNCHANGED environ

Next == ReadRoot \/ Hello \/ TestDatabase \/ HyperGenerate \/ Deliver

Spec == Init /\ [][Next]_vars

(***************************************************************************)
(* Reading a response back, for the properties below.                      *)
(***************************************************************************)
DigitValue(c) ==
    CASE c = "0" -> 0 [] c = "1" -> 1 [] c = "2" -> 2 [] c = "3" -> 3
      [] c = "4" -> 4 [] c = "5" -> 5 [] c = "6" -> 6 [] c = "7" -> 7
      [] c = "8" -> 8 [] c = "9" -> 9

RECURSIVE ParseDec(_)
ParseDec(s) ==
    IF Len(s) = 1 THEN DigitValue(s[1])
    ELSE 10 * ParseDec(SubSeq(s, 1, Len(s) - 1)) + DigitValue(s[Len(s)])

Least(S) == CHOOSE i \in S : \A j \in S : i <= j

Greatest(S) == CHOOSE i \in S : \A j \in S : j <= i

\* Position of the first start tag `name`, and of the first end tag after it.
OpenAt(doc, name) ==
    Least({i \in 1..Len(doc) : doc[i].kind = "open" /\ doc[i].name = name})

CloseAfter(doc, i) == Least({j \in (i + 1)..Len(doc) : doc[j].kind = "close"})

\* The tokens strictly inside the first element `name`.
Inside(doc, name) ==
    LET i == OpenAt(doc, name)
    IN  SubSeq(doc, i + 1, CloseAfter(doc, i) - 1)

\* The text of the caption: the characters of the text element.
Caption(doc) ==
    LET inner == Inside(doc, "text") IN [k \in 1..Len(inner) |-> inner[k].name]

\* The circles of the scattered field: the content of the group element.
Scatter(doc) == Inside(doc, "g")

\* Everything but the caption: the tokens up to the text start tag and from
\* its end tag on.
Frame(doc) ==
    LET i == OpenAt(doc, "text")
    IN  <<SubSeq(doc, 1, i), SubSeq(doc, CloseAfter(doc, i), Len(doc))>>

IsBlank(s) == \A i \in 1..Len(s) : s[i] \in Whitespace

\* s without its leading and trailing whitespace: from its first to its last
\* character that is not whitespace.
Trimmed(s) ==
    LET keep == {i \in 1..Len(s) : s[i] \notin Whitespace}
    IN  IF keep = {} THEN <<>> ELSE SubSeq(s, Least(keep), Greatest(keep))

FirstOf(s, n) == [i \in 1..(IF Len(s) < n THEN Len(s) ELSE n) |-> s[i]]

Generated == endpoint = "/api/hyper-generate"

Tested == endpoint = "/test"

Scene == response.body.image_svg

ReferencePrompts == SeqsUpTo(Alphabet, 1) \cup {DefaultPrompt}

(***************************************************************************)
(* Properties.                                                             *)
(***************************************************************************)

\* C1: after POST /api/hyper-generate, a request prompt that is empty or all
\* whitespace gives a response whose prompt is the default sentence, and the
\* scene is built from that default (its caption is the default); and the
\* response's prompt is never empty, whatever the request prompt.
C1_BlankPromptBecomesDefault ==
    Generated =>
        /\ response.status = "returned"
        /\ response.body.prompt # <<>>
        /\ IsBlank(request.prompt) =>
               /\ response.body.prompt = DefaultPrompt
               /\ Caption(Scene) = DefaultPrompt

C1_Witness ==
    /\ Generated
    /\ request.prompt = <<" ", "\t">>
    /\ response.body.prompt = DefaultPrompt
    /\ Caption(Scene) = DefaultPrompt

\* C2: the scene built for a non-empty prompt has a root element of width
\* 2400 and height 1350, and its scattered field holds exactly 19 elements,
\* all of them circles.
C2_CanvasAndNineteenCircles ==
    (Generated /\ response.body.prompt # <<>>) =>
        /\ Scene[1].kind = "open" /\ Scene[1].name = "svg"
        /\ ParseDec(Scene[1].attrs.width) = 2400
        /\ ParseDec(Scene[1].attrs.height) = 1350
        /\ Len(Scatter(Scene)) = 19
        /\ \A k \in 1..Len(Scatter(Scene)) :
               Scatter(Scene)[k].kind = "empty" /\ Scatter(Scene)[k].name = "circle"

C2_Witness ==
    /\ Generated
    /\ request.prompt = <<"a", "<", "a">>
    /\ Len(Scatter(Scene)) = 19
    /\ ParseDec(Scene[1].attrs.width) = 2400

\* C3: the caption of the returned scene holds no raw "<" and no raw "&":
\* the reserved characters of the prompt are escaped, the document is well
\* formed.
C3_CaptionEscaped ==
    Generated => \A k \in 1..Len(Caption(Scene)) : Caption(Scene)[k] \notin {"<", "&"}

\* C4: GET /test returns (never raises) with backend "Running" for every
\* outcome of the probe, and a failure of the probe shows as text in the
\* database field: the module not found, an exception from the import or
\* from reading db.name (its first 50 characters), db being None, an
\* exception from the listing (its first 50 characters).
C4_TestNeverRaises ==
    Tested =>
        LET probe == request.probe
            body == response.body
        IN  /\ response.status = "returned"
            /\ body.backend = "[ok] Running"
            /\ probe.import = "ImportError" =>
                   body.database.text = "[no] Database module not found (run enable-database first)"
            /\ probe.import = "Exception" =>
                   /\ body.database.text = "[no] Error: "
                   /\ body.database.detail = FirstOf(probe.msg, 50)
            /\ probe.import = "None" =>
                   body.database.text = "[warn]  Available but not initialized"
            /\ (probe.import = "db" /\ probe.name.kind = "raises") =>
                   /\ body.database.text = "[no] Error: "
                   /\ body.database.detail = FirstOf(probe.name.msg, 50)
            /\ (probe.import = "db" /\ probe.name.kind # "raises" /\ probe.list.kind = "raises") =>
                   /\ body.database.text = "[warn]  Connected but Error: "
                   /\ body.database.detail = FirstOf(probe.list.msg, 50)
            /\ (probe.import = "db" /\ probe.name.kind # "raises" /\ probe.list.kind = "ok") =>
                   body.database.text = "[ok] Connected & Working"

C4_Witness ==
    /\ Tested
    /\ request.probe.import = "db"
    /\ request.probe.name.kind = "raises"
    /\ Len(request.probe.name.msg) = 51
    /\ response.status = "returned"
    /\ response.body.database.text = "[no] Error: "
    /\ Len(response.body.database.detail) = 50

\* C5: every response of POST /api/hyper-generate has code snippets under
\* exactly the keys python and kotlin, five storyboard frames at t = 0, 10,
\* 25, 40, 55 (strictly increasing), four audio layers, a video duration of
\* 60 and an audio duration of 300, whatever the prompt.
C5_FixedContent ==
    Generated =>
        LET body == response.body
            frames == body.video.storyboard
        IN  /\ DOMAIN body.code_snippets = {"python", "kotlin"}
            /\ Len(frames) = 5
            /\ [k \in 1..Len(frames) |-> frames[k].t] = <<0, 10, 25, 40, 55>>
            /\ \A k \in 1..(Len(frames) - 1) : frames[k].t < frames[k + 1].t
            /\ Len(body.audio.layers) = 4
            /\ body.video.duration_sec = 60
            /\ body.audio.duration_sec = 300

C5_Witness ==
    /\ Generated
    /\ request.prompt = <<"a", " ", "&">>
    /\ Len(response.body.video.storyboard) = 5
    /\ response.body.video.storyboard[5].t = 55
    /\ Len(response.body.audio.layers) = 4

\* C6: the scene depends on the prompt through its caption alone: the scene
\* of a response and the scene built for any reference prompt are the same
\* outside the caption (the same field of circles, the same other
\* elements), and are the same document when the prompts are equal.
C6_SceneDependsOnCaptionOnly ==
    Generated =>
        \A q \in ReferencePrompts :
            /\ Frame(build_image_svg(q)) = Frame(Scene)
            /\ Scatter(build_image_svg(q)) = Scatter(Scene)
            /\ q = response.body.prompt => build_image_svg(q) = Scene

C6_Witness ==
    /\ Generated
    /\ response.body.prompt = <<"a", " ", "a">>
    /\ Scene # build_image_svg(DefaultPrompt)
    /\ Frame(Scene) = Frame(build_image_svg(DefaultPrompt))

\* C7: the scattered field holds, in increasing index order, for each index
\* i of 1..19 a circle at x = i*220, y = (i*97) mod 1350 with radius
\* 80 + (i mod 5)*18; so every y is in 0..1349 and every radius is one of
\* 80, 98, 116, 134, 152.
C7_CircleGeometry ==
    Generated =>
        /\ Len(Scatter(Scene)) = 19
        /\ \A i \in 1..19 :
               LET c == Scatter(Scene)[i].attrs
               IN  /\ ParseDec(c.cx) = i * 220
                   /\ ParseDec(c.cy) = (i * 97) % 1350
                   /\ ParseDec(c.r) = 80 + (i % 5) * 18
                   /\ ParseDec(c.cy) \in 0..1349
                   /\ ParseDec(c.r) \in {80, 98, 116, 134, 152}

C7_Witness ==
    /\ Generated
    /\ ParseDec(Scatter(Scene)[14].attrs.cx) = 3080
    /\ ParseDec(Scatter(Scene)[14].attrs.cy) = 8
    /\ ParseDec(Scatter(Scene)[14].attrs.r) = 152

\* C8, as stated: database_url and database_name are "Set" exactly when the
\* environment variable is present, for every outcome of the probe.
C8_SetIffPresent ==
    Tested =>
        /\ response.body.database_url =
               IF isPresent(environ, "DATABASE_URL") THEN "[ok] Set" ELSE "[no] Not Set"
        /\ response.body.database_name =
               IF isPresent(environ, "DATABASE_NAME") THEN "[ok] Set" ELSE "[no] Not Set"

\* C8, amended: database_url and database_name are "Set" exactly when the
\* environment variable is present with a non-empty value and "Not Set"
\* otherwise, for every outcome of the probe: what the probe wrote to the
\* two fields ("Configured", the database's name) is never returned.
C8_SetIffNonEmpty ==
    Tested =>
        /\ response.body.database_url =
               IF environ.DATABASE_URL \notin {<<>>, << <<>> >>}
               THEN "[ok] Set" ELSE "[no] Not Set"
        /\ response.body.database_name =
               IF environ.DATABASE_NAME \notin {<<>>, << <<>> >>}
               THEN "[ok] Set" ELSE "[no] Not Set"

C8_Witness ==
    /\ Tested
    /\ request.probe.import = "db"
    /\ request.probe.name.kind = "value"
    /\ environ.DATABASE_URL = << <<>> >>
    /\ environ.DATABASE_NAME = << <<"x">> >>
    /\ response.body.database_url = "[no] Not Set"
    /\ response.body.database_name = "[ok] Set"

\* C9: collections holds at most 10 names: the first 10, in order, of the
\* listing when the module imported, db is not None and the listing was
\* reached and succeeded, and nothing in every other outcome; and when it
\* is not empty, database is "Connected & Working" and connection_status is
\* "Connected".
C9_CollectionsFirstTen ==
    Tested =>
        LET probe == request.probe
            body == response.body
            listed == /\ probe.import = "db"
                      /\ probe.name.kind # "raises"
                      /\ probe.list.kind = "ok"
        IN  /\ Len(body.collections) <= 10
            /\ body.collections = IF listed THEN FirstOf(probe.list.names, 10) ELSE <<>>
            /\ body.collections # <<>> =>
                   /\ body.database.text = "[ok] Connected & Working"
                   /\ body.connection_status = "Connected"

C9_Witness ==
    /\ Tested
    /\ Len(request.probe.list.names) = 11
    /\ Len(response.body.collections) = 10
    /\ response.body.collections[10] = <<"1", "0">>

\* C10: the caption of the scene is the response's prompt, character for
\* character, and that is the request prompt without its leading and
\* trailing whitespace when this is not empty and the default sentence
\* otherwise; a request prompt with whitespace around it is never the
\* caption.
C10_CaptionIsNormalizedPrompt ==
    Generated =>
        /\ Caption(Scene) = response.body.prompt
        /\ response.body.prompt =
               IF Trimmed(request.prompt) # <<>> THEN Trimmed(request.prompt) ELSE DefaultPrompt
        /\ Trimmed(request.prompt) # request.prompt => Caption(Scene) # request.prompt

C10_Witness ==
    /\ Generated
    /\ request.prompt = <<" ", "<", "\t">>
    /\ Caption(Scene) = <<"<">>
    /\ response.body.prompt = <<"<">>

====
